---- MODULE Spec2Model ----
(***************************************************************************)
(* Model of the graph execution engine: Graph (graph.cpp, graph.hpp),      *)
(* GraphNode (graph_node.cpp) and GraphExecutor (graph_executor.cpp).      *)
(*                                                                         *)
(* Node ids are small integers;           their numeric order stands for the *)
(* lexicographic order of the id strings, which is the iteration order of  *)
(* NodeMap = std::map<NodeId, NodePtr>.                                    *)
(***************************************************************************)
EXTENDS Integers, Sequences, FiniteSets, TLC

\* ---------------------------------------------------------------- bounds
MaxEdges == 2        \* cap on the number of entries in the output (input) lists
MaxConns == 1        \* cap on the length of the explicit connection list

MaxCfgNodes == 2     \* cap on the number of nodes of one configuration
MaxCfgConns == 1     \* cap on the number of connections of one configuration
MaxLoads == 2        \* cap on the number of loadGraph calls

NodeIds == {1, 2, 3}
\* the empty NodeId string
NoId == 0
Ports == {0}
HarnessTypes == {"blur"}
\* "input" and "output" are the factory's fixed tags; "blur" is a registered operation
NodeTypes == {"input", "output", "blur"}

\* no run has completed on the graph as loaded
NoRun == [order |-> <<>>, results |-> <<>>]

VARIABLES
    nodes_,              \* Graph::nodes_ : NodeId -> GraphNode (partial map)
    connections_,        \* Graph::connections_ : vector<Connection>
    execution_levels_,   \* Graph::execution_levels_
    input_node_id_,      \* Graph::input_node_id_ , NoId when empty
    output_node_id_,     \* Graph::output_node_id_ , NoId when empty
    node_results_,       \* GraphExecutor::node_results_ : NodeId -> image (partial map)
    stats_,              \* GraphExecutor::stats_ (total_nodes, executed_nodes)
    load_ok,             \* whether the latest loadGraph call returned without throwing
    loads,               \* number of loadGraph calls made so far
    run,                 \* "none", "running", "completed" or "failed": the latest execute()
    error,               \* the exception the latest call threw, "none" if it did not throw
    execution_order,     \* local execution_order of executeWithProgress
    exec_i,              \* loop index i of executeWithProgress
    progress,            \* the progress_callback invocations of the latest execute()
    completed_run        \* history: order and results of the latest run that completed
                         \* on the graph as loaded, NoRun if there is none

graphVars == <<nodes_, connections_, execution_levels_, input_node_id_, output_node_id_>>
execVars == <<node_results_, stats_, load_ok, loads, run, error, execution_order,
              exec_i, progress, completed_run>>
vars == <<nodes_, connections_, execution_levels_, input_node_id_, output_node_id_,
          node_results_, stats_, load_ok, loads, run, error, execution_order, exec_i,
          progress, completed_run>>

\* ------------------------------------------------------------- GraphNode
Range(list) == {list[k] : k \in 1..Len(list)}

\* the empty parameter mapping (std::map<std::string, double>)
NoParameters == <<>>

\* ROI : x, y, width, height, full_image
ROI(x, y, width, height, full_image) ==
    [x |-> x, y |-> y, width |-> width, height |-> height, full_image |-> full_image]

\* the default-constructed ROI : all zeros, full_image = false
DefaultROI == ROI(0, 0, 0, 0, FALSE)

\* GraphNode::GraphNode : empty parameters, empty input and output lists,
\* default roi
GraphNode(t) ==
    [type |-> t, input_node_ids_ |-> <<>>, output_node_ids_ |-> <<>>,
     parameters_ |-> NoParameters, roi_ |-> DefaultROI]

\* GraphNode::setROI
setROI(node, roi) == [node EXCEPT !.roi_ = roi]

hasInput(list, id) == \E k \in 1..Len(list) : list[k] = id
hasOutput(list, id) == \E k \in 1..Len(list) : list[k] = id

\* addOutput without the hasOutput test
addOutputAlways(list, id) == Append(list, id)

addInput(list, id) == IF hasInput(list, id) THEN list ELSE Append(list, id)
addOutput(list, id) == IF hasOutput(list, id) THEN list ELSE Append(list, id)

\* std::find + erase : drops the first occurrence only
EraseFirst(list, id) ==
    IF ~(\E k \in 1..Len(list) : list[k] = id) THEN list
    ELSE LET k == CHOOSE j \in 1..Len(list) :
                      list[j] = id /\ \A h \in 1..(j - 1) : list[h] # id
         IN SubSeq(list, 1, k - 1) \o SubSeq(list, k + 1, Len(list))

removeInput(list, id) == EraseFirst(list, id)
removeOutput(list, id) == EraseFirst(list, id)

\* ----------------------------------------------------------------- Graph
hasNode(ns, id) == id \in DOMAIN ns
getNodeCount(ns) == Cardinality(DOMAIN ns)

\* iteration order of std::map : ascending keys
RECURSIVE SortedSeq(_)
SortedSeq(S) ==
    IF S = {} THEN <<>>
    ELSE LET m == CHOOSE x \in S : \A y \in S : x <= y
         IN <<m>> \o SortedSeq(S \ {m})

getAllNodeIds(ns) == SortedSeq(DOMAIN ns)

\* an insertion that also takes the id out of the lists of the other nodes
insertNodeDetaching(ns, id, t) ==
    [k \in (DOMAIN ns) \cup {id} |->
        IF k = id THEN GraphNode(t)
        ELSE [ns[k] EXCEPT !.input_node_ids_ = EraseFirst(@, id),
                           !.output_node_ids_ = EraseFirst(@, id)]]

\* nodes_[node->getId()] = std::move(node)
insertNode(ns, id, t) ==
    [k \in (DOMAIN ns) \cup {id} |-> IF k = id THEN GraphNode(t) ELSE ns[k]]

\* nodes_[node->getId()] = std::move(node), for a node that was set up by
\* the caller
storeNode(ns, id, node) ==
    [k \in (DOMAIN ns) \cup {id} |-> IF k = id THEN node ELSE ns[k]]

\* the two detach loops of removeNode followed by nodes_.erase(it)
detachAndErase(ns, id) ==
    LET ins == ns[id].input_node_ids_
        afterIn == [k \in DOMAIN ns |->
                      IF hasInput(ins, k)
                      THEN [ns[k] EXCEPT !.output_node_ids_ = removeOutput(@, id)]
                      ELSE ns[k]]
        outs == afterIn[id].output_node_ids_
        afterOut == [k \in DOMAIN ns |->
                      IF hasOutput(outs, k)
                      THEN [afterIn[k] EXCEPT !.input_node_ids_ = removeInput(@, id)]
                      ELSE afterIn[k]]
    IN [k \in (DOMAIN ns) \ {id} |-> afterOut[k]]

\* from->addOutput(to); to->addInput(from)
linkNodes(ns, from, to) ==
    LET a == [ns EXCEPT ![from].output_node_ids_ = addOutput(@, to)]
    IN [a EXCEPT ![to].input_node_ids_ = addInput(@, from)]

\* from->removeOutput(to); to->removeInput(from)
unlinkNodes(ns, from, to) ==
    LET a == [ns EXCEPT ![from].output_node_ids_ = removeOutput(@, to)]
    IN [a EXCEPT ![to].input_node_ids_ = removeInput(@, from)]

Connection(from, from_p, to, to_p) ==
    [from_node |-> from, from_port |-> from_p, to_node |-> to, to_port |-> to_p]

\* ------------------------------------------------------ Graph::hasCycles
RECURSIVE hasCyclesDFS(_, _, _, _)
RECURSIVE dfsOutputs(_, _, _, _)

\* the body of the loop over node->getOutputNodeIds() in hasCyclesDFS
dfsOutputs(ns, outs, visited, recursion_stack) ==
    IF outs = <<>>
    THEN [found |-> FALSE, visited |-> visited, recursion_stack |-> recursion_stack]
    ELSE LET o == Head(outs) IN
         IF o \notin visited
         THEN LET r == hasCyclesDFS(ns, o, visited, recursion_stack)
              IN IF r.found THEN r
                 ELSE dfsOutputs(ns, Tail(outs), r.visited, r.recursion_stack)
         ELSE IF o \in recursion_stack
              THEN [found |-> TRUE, visited |-> visited,
                    recursion_stack |-> recursion_stack]
              ELSE dfsOutputs(ns, Tail(outs), visited, recursion_stack)

hasCyclesDFS(ns, id, visited, recursion_stack) ==
    LET v == visited \cup {id}
        s == recursion_stack \cup {id}
        r == IF hasNode(ns, id)
             THEN dfsOutputs(ns, ns[id].output_node_ids_, v, s)
             ELSE [found |-> FALSE, visited |-> v, recursion_stack |-> s]
    IN IF r.found THEN r ELSE [r EXCEPT !.recursion_stack = @ \ {id}]

RECURSIVE hasCyclesFrom(_, _, _, _)
\* the loop over nodes_ in hasCycles
hasCyclesFrom(ns, ids, visited, recursion_stack) ==
    IF ids = <<>> THEN FALSE
    ELSE IF Head(ids) \in visited
         THEN hasCyclesFrom(ns, Tail(ids), visited, recursion_stack)
         ELSE LET r == hasCyclesDFS(ns, Head(ids), visited, recursion_stack)
              IN IF r.found THEN TRUE
                 ELSE hasCyclesFrom(ns, Tail(ids), r.visited, r.recursion_stack)

hasCycles(ns) == hasCyclesFrom(ns, getAllNodeIds(ns), {}, {})

\* ------------------------------------------------ Graph::topologicalSort
RECURSIVE Occurrences(_, _)
\* how often id occurs in list
Occurrences(list, id) ==
    IF list = <<>> THEN 0
    ELSE (IF Head(list) = id THEN 1 ELSE 0) + Occurrences(Tail(list), id)

RECURSIVE CountOutputs(_, _, _)
\* how often id occurs in the output lists of the nodes listed in ids
CountOutputs(ns, ids, id) ==
    IF ids = <<>> THEN 0
    ELSE Occurrences(ns[Head(ids)].output_node_ids_, id) + CountOutputs(ns, Tail(ids), id)

\* std::map<NodeId,int> in_degree : a key for every node and, through
\* operator[], for every id named in an output list
inDegree(ns) ==
    LET ids == getAllNodeIds(ns)
        keys == (DOMAIN ns) \cup UNION {Range(ns[k].output_node_ids_) : k \in DOMAIN ns}
    IN [id \in keys |-> CountOutputs(ns, ids, id)]

RECURSIVE relaxOutputs(_, _)
\* in_degree[output_id]--; push when it reaches zero
relaxOutputs(outs, st) ==
    IF outs = <<>> THEN st
    ELSE LET o == Head(outs)
             d == st.in_degree[o] - 1
         IN relaxOutputs(Tail(outs),
                [in_degree |-> [st.in_degree EXCEPT ![o] = d],
                 queue |-> IF d = 0 THEN Append(st.queue, o) ELSE st.queue])

RECURSIVE processLevel(_, _, _)
\* the for loop over level_size queue entries
processLevel(ns, level, st) ==
    IF level = <<>> THEN st
    ELSE processLevel(ns, Tail(level),
            IF hasNode(ns, Head(level))
            THEN relaxOutputs(ns[Head(level)].output_node_ids_, st)
            ELSE st)

RECURSIVE kahnLevelsOneByOne(_, _, _)
\* the while loop without the level_size batching: every queue entry becomes
\* a level of its own
kahnLevelsOneByOne(ns, in_degree, queue) ==
    IF queue = <<>> THEN <<>>
    ELSE LET st == processLevel(ns, <<Head(queue)>>,
                       [in_degree |-> in_degree, queue |-> Tail(queue)])
         IN <<<<Head(queue)>>>> \o kahnLevelsOneByOne(ns, st.in_degree, st.queue)

RECURSIVE kahnLevels(_, _, _)
\* the while (!queue.empty()) loop
kahnLevels(ns, in_degree, queue) ==
    IF queue = <<>> THEN <<>>
    ELSE LET st == processLevel(ns, queue, [in_degree |-> in_degree, queue |-> <<>>])
         IN <<queue>> \o kahnLevels(ns, st.in_degree, st.queue)

RECURSIVE Flatten(_)
Flatten(levels) == IF levels = <<>> THEN <<>> ELSE Head(levels) \o Flatten(Tail(levels))

\* topologicalSort without the processed_nodes check: hands back whatever
\* levels Kahn's loop produced
topologicalSortUnchecked(ns) ==
    LET in_degree == inDegree(ns)
    IN kahnLevels(ns, in_degree,
           SortedSeq({id \in DOMAIN in_degree : in_degree[id] = 0}))

topologicalSort(ns) ==
    LET in_degree == inDegree(ns)
        levels == kahnLevels(ns, in_degree,
                      SortedSeq({id \in DOMAIN in_degree : in_degree[id] = 0}))
        processed_nodes == Len(Flatten(levels))
    IN IF processed_nodes # getNodeCount(ns) THEN <<>> ELSE levels

getTopologicalOrder(ns) == Flatten(topologicalSort(ns))

getIncomingConnections(conns, id) == SelectSeq(conns, LAMBDA c : c.to_node = id)
getOutgoingConnections(conns, id) == SelectSeq(conns, LAMBDA c : c.from_node = id)

\* ----------------------------------------------------- Graph operations
RECURSIVE SumOutputs(_, _)
SumOutputs(ns, ids) ==
    IF ids = <<>> THEN 0
    ELSE Len(ns[Head(ids)].output_node_ids_) + SumOutputs(ns, Tail(ids))

RECURSIVE SumInputs(_, _)
SumInputs(ns, ids) ==
    IF ids = <<>> THEN 0
    ELSE Len(ns[Head(ids)].input_node_ids_) + SumInputs(ns, Tail(ids))

\* room for one more edge: fewer than MaxEdges entries in the output lists
\* and in the input lists
EdgeRoom(ns) ==
    /\ SumOutputs(ns, getAllNodeIds(ns)) < MaxEdges
    /\ SumInputs(ns, getAllNodeIds(ns)) < MaxEdges

\* Graph::updateExecutionLevels
updateExecutionLevels(ns) == topologicalSort(ns)

Init ==
    /\ nodes_ = <<>>
    /\ connections_ = <<>>
    /\ execution_levels_ = <<>>
    /\ input_node_id_ = NoId
    /\ output_node_id_ = NoId
    /\ node_results_ = <<>>
    /\ stats_ = [total_nodes |-> 0, executed_nodes |-> 0]
    /\ load_ok = FALSE
    /\ loads = 0
    /\ run = "none"
    /\ error = "none"
    /\ execution_order = <<>>
    /\ exec_i = 0
    /\ progress = <<>>
    /\ completed_run = NoRun

\* Graph::addNode
AddNode(id, t) ==
    /\ nodes_' = insertNode(nodes_, id, t)
    /\ execution_levels_' = updateExecutionLevels(nodes_')
    /\ UNCHANGED <<connections_, input_node_id_, output_node_id_>>
    /\ UNCHANGED execVars

\* Graph::removeNode
RemoveNode(id) ==
    /\ IF hasNode(nodes_, id)
       THEN /\ nodes_' = detachAndErase(nodes_, id)
            /\ execution_levels_' = updateExecutionLevels(nodes_')
       ELSE UNCHANGED <<nodes_, execution_levels_>>
    /\ UNCHANGED <<connections_, input_node_id_, output_node_id_>>
    /\ UNCHANGED execVars

\* Graph::connectNodes
ConnectNodes(from, to) ==
    /\ EdgeRoom(nodes_)
    /\ IF hasNode(nodes_, from) /\ hasNode(nodes_, to)
       THEN /\ nodes_' = linkNodes(nodes_, from, to)
            /\ execution_levels_' = updateExecutionLevels(nodes_')
       ELSE UNCHANGED <<nodes_, execution_levels_>>
    /\ UNCHANGED <<connections_, input_node_id_, output_node_id_>>
    /\ UNCHANGED execVars

\* Graph::disconnectNodes
DisconnectNodes(from, to) ==
    /\ IF hasNode(nodes_, from) /\ hasNode(nodes_, to)
       THEN /\ nodes_' = unlinkNodes(nodes_, from, to)
            /\ execution_levels_' = updateExecutionLevels(nodes_')
       ELSE UNCHANGED <<nodes_, execution_levels_>>
    /\ UNCHANGED <<connections_, input_node_id_, output_node_id_>>
    /\ UNCHANGED execVars

\* Graph::addConnection
AddConnection(from, from_port, to, to_port) ==
    /\ EdgeRoom(nodes_)
    /\ Len(connections_) < MaxConns
    /\ connections_' = Append(connections_, Connection(from, from_port, to, to_port))
    /\ nodes_' = IF hasNode(nodes_, from) /\ hasNode(nodes_, to)
                 THEN linkNodes(nodes_, from, to)
                 ELSE nodes_
    /\ execution_levels_' = updateExecutionLevels(nodes_')
    /\ UNCHANGED <<input_node_id_, output_node_id_>>
    /\ UNCHANGED execVars

\* clear without execution_levels_.clear()
ClearKeepsLevels ==
    /\ nodes_' = <<>>
    /\ connections_' = <<>>
    /\ UNCHANGED execution_levels_
    /\ input_node_id_' = NoId
    /\ output_node_id_' = NoId
    /\ UNCHANGED execVars

\* Graph::clear
Clear ==
    /\ nodes_' = <<>>
    /\ connections_' = <<>>
    /\ execution_levels_' = <<>>
    /\ input_node_id_' = NoId
    /\ output_node_id_' = NoId
    /\ UNCHANGED execVars

\* a Graph object driven through its public mutation operations
Next ==
    \/ \E id \in NodeIds, t \in HarnessTypes : AddNode(id, t)
    \/ \E id \in NodeIds : RemoveNode(id)
    \/ \E from \in NodeIds, to \in NodeIds : ConnectNodes(from, to)
    \/ \E from \in NodeIds, to \in NodeIds : DisconnectNodes(from, to)
    \/ \E from \in NodeIds, to \in NodeIds, fp \in Ports, tp \in Ports :
           AddConnection(from, fp, to, tp)
    \/ Clear

Spec == Init /\ [][Next]_vars

\* ------------------------------------------------------- Graph::validate
\* validate without the loop over getInputNodeIds()
validateOutputsOnly(in_id, out_id, ns) ==
    IF in_id # NoId /\ ~hasNode(ns, in_id) THEN FALSE
    ELSE IF out_id # NoId /\ ~hasNode(ns, out_id) THEN FALSE
    ELSE IF hasCycles(ns) THEN FALSE
    ELSE \A k \in DOMAIN ns :
            \A j \in 1..Len(ns[k].output_node_ids_) : hasNode(ns, ns[k].output_node_ids_[j])

validate(in_id, out_id, ns) ==
    IF in_id # NoId /\ ~hasNode(ns, in_id) THEN FALSE
    ELSE IF out_id # NoId /\ ~hasNode(ns, out_id) THEN FALSE
    ELSE IF hasCycles(ns) THEN FALSE
    ELSE \A k \in DOMAIN ns :
            /\ \A j \in 1..Len(ns[k].input_node_ids_) : hasNode(ns, ns[k].input_node_ids_[j])
            /\ \A j \in 1..Len(ns[k].output_node_ids_) : hasNode(ns, ns[k].output_node_ids_[j])

\* Graph::setInputNodeId
SetInputNodeId(id) ==
    /\ input_node_id_' = id
    /\ UNCHANGED <<nodes_, connections_, execution_levels_, output_node_id_>>
    /\ UNCHANGED execVars

\* Graph::setOutputNodeId
SetOutputNodeId(id) ==
    /\ output_node_id_' = id
    /\ UNCHANGED <<nodes_, connections_, execution_levels_, input_node_id_>>
    /\ UNCHANGED execVars

\* a Graph object whose node lists and designated ids are set through its
\* public operations, for validate(), which reads nothing else
NextValidate ==
    \/ \E id \in NodeIds, t \in HarnessTypes : AddNode(id, t)
    \/ \E id \in NodeIds : RemoveNode(id)
    \/ \E from \in NodeIds, to \in NodeIds : ConnectNodes(from, to)
    \/ \E from \in NodeIds, to \in NodeIds : DisconnectNodes(from, to)
    \/ \E id \in NodeIds \cup {NoId} : SetInputNodeId(id)
    \/ \E id \in NodeIds \cup {NoId} : SetOutputNodeId(id)
    \/ Clear

SpecValidate == Init /\ [][NextValidate]_vars

\* ------------------------------------------------------- GraphExecutor
\* NodeConfig
NodeConfig(id, t, parameters, inputs, roi) ==
    [id |-> id, type |-> t, parameters |-> parameters, inputs |-> inputs, roi |-> roi]

\* configurations: every id at most once, nodes listed in id order, ports 0;
\* no parameters, no inputs lists, default roi
ConfigNodes ==
    {ns \in UNION {[1..n -> [id : NodeIds, type : NodeTypes, parameters : {NoParameters},
                             inputs : {<<>>}, roi : {DefaultROI}]] :
                      n \in 0..MaxCfgNodes} :
        \A k \in 1..(Len(ns) - 1) : ns[k].id < ns[k + 1].id}

ConfigConnections ==
    UNION {[1..n -> [from_node : NodeIds, from_port : {0}, to_node : NodeIds, to_port : {0}]] :
              n \in 0..MaxCfgConns}

\* GraphConfig::input_node_id and output_node_id : empty, or an id that a
\* configuration may or may not have a node for
ConfigDesignated == {NoId, 3}

\* GraphConfig
GraphConfig(cfg_nodes, cfg_conns, in_id, out_id) ==
    [nodes |-> cfg_nodes, connections |-> cfg_conns,
     input_node_id |-> in_id, output_node_id |-> out_id]

\* GraphNodeFactory::createNode(node_id, node_type, parameters, image_path) :
\* createInputNode, createOutputNode or createOperationNode, none of which
\* is handed the parameters
createNode(node_id, node_type, parameters) == GraphNode(node_type)

RECURSIVE buildNodes(_, _)
\* first loop of buildGraph : createNode, setROI and graph_.addNode for each
\* NodeConfig
buildNodes(ns, cfg_nodes) ==
    IF cfg_nodes = <<>> THEN ns
    ELSE LET node_config == Head(cfg_nodes)
             node == setROI(createNode(node_config.id, node_config.type,
                                       node_config.parameters),
                            node_config.roi)
         IN buildNodes(storeNode(ns, node_config.id, node), Tail(cfg_nodes))

RECURSIVE buildConnections(_, _)
\* second loop of buildGraph : graph_.addConnection for each connection;
\* g is [nodes, connections]
buildConnections(g, cfg_conns) ==
    IF cfg_conns = <<>> THEN g
    ELSE LET c == Head(cfg_conns)
         IN buildConnections(
                [nodes |-> IF hasNode(g.nodes, c.from_node) /\ hasNode(g.nodes, c.to_node)
                           THEN linkNodes(g.nodes, c.from_node, c.to_node)
                           ELSE g.nodes,
                 connections |-> Append(g.connections,
                     Connection(c.from_node, c.from_port, c.to_node, c.to_port))],
                Tail(cfg_conns))

buildGraph(ns, conns, config) ==
    buildConnections([nodes |-> buildNodes(ns, config.nodes), connections |-> conns],
                     config.connections)

\* validateGraph with the warning about output nodes made an exception
validateGraphStrict(ns, conns) ==
    IF hasCycles(ns) THEN "graph_contains_cycles"
    ELSE IF \E id \in DOMAIN ns :
                ns[id].type = "input" /\ getIncomingConnections(conns, id) # <<>>
         THEN "input_has_incoming"
         ELSE IF \E id \in DOMAIN ns :
                    ns[id].type = "output" /\ getOutgoingConnections(conns, id) # <<>>
              THEN "output_has_outgoing"
              ELSE "none"

\* GraphExecutor::validateGraph : the exception it throws, "none" if it returns
validateGraph(ns, conns) ==
    IF hasCycles(ns) THEN "graph_contains_cycles"
    ELSE IF \E id \in DOMAIN ns :
                ns[id].type = "input" /\ getIncomingConnections(conns, id) # <<>>
         THEN "input_has_incoming"
         ELSE "none"

\* loadGraph without the call of clearResults
LoadGraphKeepsResults(config) ==
    /\ run # "running"
    /\ loads < MaxLoads
    /\ loads' = loads + 1
    /\ LET g == buildGraph(nodes_, connections_, config)
           thrown == validateGraph(g.nodes, g.connections)
       IN /\ nodes_' = g.nodes
          /\ connections_' = g.connections
          /\ execution_levels_' = updateExecutionLevels(g.nodes)
          /\ error' = thrown
          /\ load_ok' = (thrown = "none")
          /\ stats_' = IF thrown = "none"
                       THEN [total_nodes |-> getNodeCount(g.nodes), executed_nodes |-> 0]
                       ELSE stats_
    /\ completed_run' = NoRun
    /\ UNCHANGED <<input_node_id_, output_node_id_, node_results_, run, execution_order,
                   exec_i, progress>>

\* GraphExecutor::loadGraph(const GraphConfig&)
LoadGraph(config) ==
    /\ run # "running"
    /\ loads < MaxLoads
    /\ loads' = loads + 1
    /\ LET g == buildGraph(nodes_, connections_, config)
           thrown == validateGraph(g.nodes, g.connections)
       IN /\ nodes_' = g.nodes
          /\ connections_' = g.connections
          /\ execution_levels_' = updateExecutionLevels(g.nodes)
          /\ node_results_' = <<>>
          /\ error' = thrown
          /\ load_ok' = (thrown = "none")
          /\ stats_' = IF thrown = "none"
                       THEN [total_nodes |-> getNodeCount(g.nodes), executed_nodes |-> 0]
                       ELSE [stats_ EXCEPT !.executed_nodes = 0]
    /\ completed_run' = NoRun
    /\ UNCHANGED <<input_node_id_, output_node_id_, run, execution_order, exec_i, progress>>

\* clearResults without stats_.executed_nodes = 0
ClearResultsKeepsCount ==
    /\ run # "running"
    /\ node_results_' = <<>>
    /\ UNCHANGED <<graphVars, stats_, load_ok, loads, run, error, execution_order, exec_i,
                   progress, completed_run>>

\* GraphExecutor::clearResults
ClearResults ==
    /\ run # "running"
    /\ node_results_' = <<>>
    /\ stats_' = [stats_ EXCEPT !.executed_nodes = 0]
    /\ UNCHANGED <<graphVars, load_ok, loads, run, error, execution_order, exec_i, progress,
                   completed_run>>

\* executeWithProgress up to the loop, without the call of clearResults
ExecuteBeginKeepsResults ==
    /\ run # "running"
    /\ execution_order' = getTopologicalOrder(nodes_)
    /\ exec_i' = 0
    /\ progress' = <<>>
    /\ IF execution_order' = <<>>
       THEN run' = "failed" /\ error' = "no_valid_execution_order"
       ELSE run' = "running" /\ error' = "none"
    /\ UNCHANGED <<graphVars, node_results_, stats_, load_ok, loads, completed_run>>

\* executeWithProgress up to the loop : clearResults, getTopologicalOrder, the
\* empty-order check
ExecuteBegin ==
    /\ run # "running"
    /\ node_results_' = <<>>
    /\ stats_' = [stats_ EXCEPT !.executed_nodes = 0]
    /\ execution_order' = getTopologicalOrder(nodes_)
    /\ exec_i' = 0
    /\ progress' = <<>>
    /\ IF execution_order' = <<>>
       THEN run' = "failed" /\ error' = "no_valid_execution_order"
       ELSE run' = "running" /\ error' = "none"
    /\ UNCHANGED <<graphVars, load_ok, loads, completed_run>>

\* GraphExecutor::getNodeInputs : the cached results of the sources of the
\* incoming connections, in connection order
getNodeInputs(conns, results, id) ==
    LET incoming == getIncomingConnections(conns, id)
    IN [k \in 1..Len(incoming) |-> results[incoming[k].from_node]]

\* the first throw of getNodeInputs, if any
sourceNotExecuted(conns, results, id) ==
    \E k \in 1..Len(getIncomingConnections(conns, id)) :
        getIncomingConnections(conns, id)[k].from_node \notin DOMAIN results

\* InputNode::execute, OutputNode::execute, OperationNode::execute.
\* An image is the list of the ids of the nodes that produced it; external_ok
\* says whether imread, imwrite or the wrapped operation succeeded.
nodeExecute(id, type, inputs, external_ok) ==
    IF type = "input"
    THEN IF external_ok THEN [thrown |-> "none", image |-> <<id>>]
         ELSE [thrown |-> "node_execution", image |-> <<>>]
    ELSE IF Len(inputs) # 1 THEN [thrown |-> "node_execution", image |-> <<>>]
    ELSE IF ~external_ok THEN [thrown |-> "node_execution", image |-> <<>>]
    ELSE IF type = "output" THEN [thrown |-> "none", image |-> inputs[1]]
    ELSE [thrown |-> "none", image |-> Append(inputs[1], id)]

\* GraphExecutor::executeNode
executeNode(ns, conns, results, id, external_ok) ==
    IF ~hasNode(ns, id) THEN [thrown |-> "node_not_found", image |-> <<>>]
    ELSE IF sourceNotExecuted(conns, results, id)
    THEN [thrown |-> "source_not_executed", image |-> <<>>]
    ELSE nodeExecute(id, ns[id].type, getNodeInputs(conns, results, id), external_ok)

\* the callback with i instead of i + 1
progressEntryZeroBased(node_id, i, total, results) ==
    [node |-> node_id, current |-> i, total |-> total, cached |-> DOMAIN results]

\* progress_callback(node_name, i + 1, execution_order.size()); cached is the
\* key set of node_results_ at the time of the call
progressEntry(node_id, i, total, results) ==
    [node |-> node_id, current |-> i + 1, total |-> total, cached |-> DOMAIN results]

\* the loop body with the exception of executeNode swallowed: the empty image
\* is cached for the failing node and the loop goes on
ExecuteStepKeepGoing(external_ok) ==
    /\ run = "running"
    /\ LET node_id == execution_order[exec_i + 1]
           r == executeNode(nodes_, connections_, node_results_, node_id, external_ok)
       IN /\ progress' = Append(progress,
                 progressEntry(node_id, exec_i, Len(execution_order), node_results_))
          /\ node_results_' =
                 [k \in (DOMAIN node_results_) \cup {node_id} |->
                     IF k = node_id THEN r.image ELSE node_results_[k]]
          /\ stats_' = [stats_ EXCEPT !.executed_nodes = @ + 1]
          /\ exec_i' = exec_i + 1
          /\ run' = IF exec_i + 1 = Len(execution_order) THEN "completed" ELSE "running"
          /\ completed_run' = IF run' = "completed"
                              THEN [order |-> execution_order, results |-> node_results_']
                              ELSE completed_run
          /\ UNCHANGED error
    /\ UNCHANGED <<graphVars, load_ok, loads, execution_order>>

\* the loop body with a retry: an exception of executeNode is swallowed and
\* the same iteration is run again
ExecuteStepRetry(external_ok) ==
    /\ run = "running"
    /\ LET node_id == execution_order[exec_i + 1]
           r == executeNode(nodes_, connections_, node_results_, node_id, external_ok)
       IN IF r.thrown # "none"
          THEN UNCHANGED <<node_results_, stats_, exec_i, completed_run, run, error,
                           progress>>
          ELSE /\ progress' = Append(progress,
                      progressEntry(node_id, exec_i, Len(execution_order), node_results_))
               /\ node_results_' =
                      [k \in (DOMAIN node_results_) \cup {node_id} |->
                          IF k = node_id THEN r.image ELSE node_results_[k]]
               /\ stats_' = [stats_ EXCEPT !.executed_nodes = @ + 1]
               /\ exec_i' = exec_i + 1
               /\ run' = IF exec_i + 1 = Len(execution_order)
                         THEN "completed" ELSE "running"
               /\ completed_run' = IF run' = "completed"
                                   THEN [order |-> execution_order,
                                         results |-> node_results_']
                                   ELSE completed_run
               /\ UNCHANGED error
    /\ UNCHANGED <<graphVars, load_ok, loads, execution_order>>

\* one iteration of the loop of executeWithProgress, with the return after the
\* last one
ExecuteStep(external_ok) ==
    /\ run = "running"
    /\ LET node_id == execution_order[exec_i + 1]
           r == executeNode(nodes_, connections_, node_results_, node_id, external_ok)
       IN /\ progress' = Append(progress,
                 progressEntry(node_id, exec_i, Len(execution_order), node_results_))
          /\ IF r.thrown # "none"
             THEN /\ run' = "failed"
                  /\ error' = r.thrown
                  /\ UNCHANGED <<node_results_, stats_, exec_i, completed_run>>
             ELSE /\ node_results_' =
                        [k \in (DOMAIN node_results_) \cup {node_id} |->
                            IF k = node_id THEN r.image ELSE node_results_[k]]
                  /\ stats_' = [stats_ EXCEPT !.executed_nodes = @ + 1]
                  /\ exec_i' = exec_i + 1
                  /\ run' = IF exec_i + 1 = Len(execution_order)
                            THEN "completed" ELSE "running"
                  /\ completed_run' = IF run' = "completed"
                                      THEN [order |-> execution_order,
                                            results |-> node_results_']
                                      ELSE completed_run
                  /\ UNCHANGED error
    /\ UNCHANGED <<graphVars, load_ok, loads, execution_order>>

\* Graph::getNodesByType : the ids of the nodes of that type, in map order
getNodesByType(ns, t) == SortedSeq({id \in DOMAIN ns : ns[id].type = t})

\* getResult without the lookup of output nodes: always the last map entry
getResultLastKey(ns, results) ==
    IF DOMAIN results = {} THEN <<>>
    ELSE results[CHOOSE k \in DOMAIN results : \A j \in DOMAIN results : j <= k]

\* GraphExecutor::getResult ; <<>> is the empty cv::Mat
getResult(ns, results) ==
    IF DOMAIN results = {} THEN <<>>
    ELSE LET output_nodes == getNodesByType(ns, "output")
         IN IF output_nodes = <<>>
            \* node_results_.rbegin()->second : the entry with the largest key
            THEN results[CHOOSE k \in DOMAIN results : \A j \in DOMAIN results : j <= k]
            ELSE IF output_nodes[1] \in DOMAIN results
                 THEN results[output_nodes[1]]
                 ELSE <<>>

\* a GraphExecutor driven through loadGraph, execute and clearResults
NextExec ==
    \/ \E cfg_nodes \in ConfigNodes, cfg_conns \in ConfigConnections :
           LoadGraph(GraphConfig(cfg_nodes, cfg_conns, NoId, NoId))
    \/ ClearResults
    \/ ExecuteBegin
    \/ \E external_ok \in BOOLEAN : ExecuteStep(external_ok)

SpecExec == Init /\ [][NextExec]_vars

\* execute() is a synchronous call: once it has started, the calling thread
\* goes on through the loop of executeWithProgress until it returns or throws
SpecExecFair ==
    /\ Init
    /\ [][NextExec]_vars
    /\ WF_vars(\E external_ok \in BOOLEAN : ExecuteStep(external_ok))

\* a GraphExecutor that is handed configurations with and without designated
\* input and output ids
NextLoad ==
    \E cfg_nodes \in ConfigNodes, cfg_conns \in ConfigConnections,
       in_id \in ConfigDesignated, out_id \in ConfigDesignated :
           LoadGraph(GraphConfig(cfg_nodes, cfg_conns, in_id, out_id))

SpecLoad == Init /\ [][NextLoad]_vars

\* ------------------------------------------------- graph-theoretic terms
\* successors of a along the output lists
Successors(ns, a) == IF hasNode(ns, a) THEN Range(ns[a].output_node_ids_) ELSE {}

RECURSIVE Closure(_, _)
\* the ids reachable from S in zero or more steps
Closure(ns, S) ==
    LET T == S \cup UNION {Successors(ns, x) : x \in S}
    IN IF T = S THEN S ELSE Closure(ns, T)

\* the ids reachable from a in one or more steps
Descendants(ns, a) == Closure(ns, Successors(ns, a))

\* some node is reachable from itself
Cyclic(ns) == \E a \in DOMAIN ns : a \in Descendants(ns, a)

\* the ids of the nodes of a configuration
ConfigIds(cfg_nodes) == {cfg_nodes[k].id : k \in 1..Len(cfg_nodes)}

\* every id named in an input or output list is a node
WellFormed(ns) ==
    \A k \in DOMAIN ns :
        /\ Range(ns[k].input_node_ids_) \subseteq DOMAIN ns
        /\ Range(ns[k].output_node_ids_) \subseteq DOMAIN ns

\* the nodes that have id in their output list
Predecessors(ns, id) == {p \in DOMAIN ns : hasOutput(ns[p].output_node_ids_, id)}

RECURSIVE LongestPathTo(_, _)
\* number of edges of the longest directed path that ends at id (ns acyclic)
LongestPathTo(ns, id) ==
    IF Predecessors(ns, id) = {} THEN 0
    ELSE LET S == {LongestPathTo(ns, p) : p \in Predecessors(ns, id)}
         IN 1 + CHOOSE m \in S : \A x \in S : x <= m

\* a node with the given output list (the input list plays no part in the sort)
NodeWithOutputs(outs) == [GraphNode("blur") EXCEPT !.output_node_ids_ = outs]

\* source 1 -> A 2, source 1 -> B 3, A 2 -> sink 4, B 3 -> sink 4
Diamond ==
    <<NodeWithOutputs(<<2, 3>>), NodeWithOutputs(<<4>>), NodeWithOutputs(<<4>>),
      NodeWithOutputs(<<>>)>>

\* source 1 -> blur 2 -> sink 3
Chain == <<NodeWithOutputs(<<2>>), NodeWithOutputs(<<3>>), NodeWithOutputs(<<>>)>>

\* id has level index k in levels
InLevel(levels, k, id) == k \in 1..Len(levels) /\ id \in Range(levels[k])

\* ----------------------------------------------------------------- claims

\* C1: after a loadGraph that succeeded, execute() never throws "Source node
\* not executed": whenever a node is about to be executed, the source of every
\* connection that targets it has a cached result.
C1_SourcesCached ==
    load_ok =>
        /\ error # "source_not_executed"
        /\ run = "running" =>
               ~sourceNotExecuted(connections_, node_results_,
                                  execution_order[exec_i + 1])

\* C2: whenever topologicalSort() returns a non-empty level set, every edge
\* A->B (B in A's output list) has the level index of A strictly below the
\* level index of B.
C2_EdgeLevelsIncrease ==
    LET levels == topologicalSort(nodes_)
    IN levels # <<>> =>
         \A a \in DOMAIN nodes_ : \A b \in Range(nodes_[a].output_node_ids_) :
            \E i \in 1..Len(levels), j \in 1..Len(levels) :
                InLevel(levels, i, a) /\ InLevel(levels, j, b) /\ i < j

\* C3: for every acyclic graph state, topologicalSort() returns levels whose
\* total size is getNodeCount(), holding every node id exactly once and no
\* other id.
C3_SortCoversAllNodes ==
    ~Cyclic(nodes_) =>
        LET order == Flatten(topologicalSort(nodes_))
        IN /\ Len(order) = getNodeCount(nodes_)
           /\ Range(order) = DOMAIN nodes_
           /\ \A i \in 1..Len(order), j \in 1..Len(order) :
                  order[i] = order[j] => i = j

\* C4: whenever connectNodes or addConnection between two existing nodes
\* closes a directed cycle (a self-loop included), afterwards hasCycles() is
\* true and topologicalSort() returns the empty level set.
C4_ClosedCycleDetected ==
    [][\A from \in NodeIds, to \in NodeIds :
          ( /\ \/ ConnectNodes(from, to)
               \/ \E fp \in Ports, tp \in Ports : AddConnection(from, fp, to, tp)
            /\ hasNode(nodes_, from) /\ hasNode(nodes_, to)
            /\ from \in Closure(nodes_', {to}) )
          => /\ hasCycles(nodes_')
             /\ topologicalSort(nodes_') = <<>>]_vars

\* C5: when the graph contains a cycle at the time execute() is called,
\* execute() fails before any node is executed: no progress callback, no
\* cached result, executed_nodes 0, and the loop over the nodes is never
\* entered.
C5_CyclicExecuteFails ==
    /\ [](Cyclic(nodes_) => run # "running")
    /\ [][(ExecuteBegin /\ Cyclic(nodes_)) =>
            /\ run' = "failed"
            /\ error' = "no_valid_execution_order"
            /\ node_results_' = <<>>
            /\ stats_'.executed_nodes = 0
            /\ progress' = <<>>]_vars

\* C5 witness: execute() has failed on a graph that has a cycle and also a
\* node that lies on no cycle.
C5_Witness ==
    /\ run = "failed"
    /\ error = "no_valid_execution_order"
    /\ Cyclic(nodes_)
    /\ \E a \in DOMAIN nodes_ : a \notin Descendants(nodes_, a)

\* C6: after every sequence of Graph mutations, for all nodes A and B of the
\* graph, B is in A's output list if and only if A is in B's input list.
C6_ListsMutuallyConsistent ==
    \A a \in DOMAIN nodes_, b \in DOMAIN nodes_ :
        hasOutput(nodes_[a].output_node_ids_, b) <=> hasInput(nodes_[b].input_node_ids_, a)

\* C7: when both endpoints exist, connectNodes(from, to) and
\* addConnection(from, p, to, q) each leave a connection from->to in the
\* connection list, to in from's output list and from in to's input list.
C7_RecordedInBothPlaces ==
    [][\A from \in NodeIds, to \in NodeIds :
          ( /\ \/ ConnectNodes(from, to)
               \/ \E fp \in Ports, tp \in Ports : AddConnection(from, fp, to, tp)
            /\ hasNode(nodes_, from) /\ hasNode(nodes_, to) )
          => /\ \E k \in 1..Len(connections_') :
                    connections_'[k].from_node = from /\ connections_'[k].to_node = to
             /\ hasOutput(nodes_'[from].output_node_ids_, to)
             /\ hasInput(nodes_'[to].input_node_ids_, from)]_vars

\* C8: connectNodes and addConnection change nothing when an endpoint id is
\* not a node of the graph: connection list, node lists and node set stay.
C8_MissingEndpointNoOp ==
    [][\A from \in NodeIds, to \in NodeIds :
          ( /\ \/ ConnectNodes(from, to)
               \/ \E fp \in Ports, tp \in Ports : AddConnection(from, fp, to, tp)
            /\ ~(hasNode(nodes_, from) /\ hasNode(nodes_, to)) )
          => /\ connections_' = connections_
             /\ nodes_' = nodes_]_vars

\* C9: after removeNode(id) returned true no remaining node has id in its
\* input list or in its output list; removeNode(id) on an absent id changes
\* nothing.
C9_RemoveLeavesNoReference ==
    [][\A id \in NodeIds :
          RemoveNode(id) =>
             IF hasNode(nodes_, id)
             THEN \A k \in DOMAIN nodes_' :
                     /\ ~hasInput(nodes_'[k].input_node_ids_, id)
                     /\ ~hasOutput(nodes_'[k].output_node_ids_, id)
             ELSE UNCHANGED graphVars]_vars

\* C10: after every Graph mutation the cached execution levels equal what
\* topologicalSort() returns on the current graph.
C10_LevelsNeverStale == execution_levels_ = topologicalSort(nodes_)

\* C10 witness: the cached levels of a graph whose nodes were connected into
\* a chain of three levels, with a connection in the connection list.
C10_Witness ==
    /\ Len(execution_levels_) = 3
    /\ connections_ # <<>>

\* C11: validate() returns false exactly when the designated input id is
\* non-empty and absent, or the designated output id is non-empty and absent,
\* or the graph has a cycle, or some node's input or output list names an id
\* that is not a node of the graph; otherwise it returns true.
C11_ValidateExact ==
    validate(input_node_id_, output_node_id_, nodes_) <=>
        ~( \/ input_node_id_ # NoId /\ input_node_id_ \notin DOMAIN nodes_
           \/ output_node_id_ # NoId /\ output_node_id_ \notin DOMAIN nodes_
           \/ Cyclic(nodes_)
           \/ \E k \in DOMAIN nodes_ :
                  \/ ~(Range(nodes_[k].input_node_ids_) \subseteq DOMAIN nodes_)
                  \/ ~(Range(nodes_[k].output_node_ids_) \subseteq DOMAIN nodes_) )

\* C11 witness: both designated ids are set and present, the graph has an
\* edge and no cycle, every output list names nodes only, and the single
\* defect is an input list that names an id that is not a node.
C11_Witness ==
    /\ input_node_id_ \in DOMAIN nodes_
    /\ output_node_id_ \in DOMAIN nodes_
    /\ input_node_id_ # output_node_id_
    /\ ~Cyclic(nodes_)
    /\ \E k \in DOMAIN nodes_ : nodes_[k].output_node_ids_ # <<>>
    /\ \A k \in DOMAIN nodes_ : Range(nodes_[k].output_node_ids_) \subseteq DOMAIN nodes_
    /\ \E k \in DOMAIN nodes_ : ~(Range(nodes_[k].input_node_ids_) \subseteq DOMAIN nodes_)
    /\ ~validate(input_node_id_, output_node_id_, nodes_)

\* C12: loadGraph(config) fails whenever the configuration has a connection
\* whose from_node or to_node is not the id of a node of the configuration;
\* such a configuration never reaches the loaded state.
C12_DanglingConnectionFailsLoad ==
    [][\A cfg_nodes \in ConfigNodes, cfg_conns \in ConfigConnections,
          in_id \in ConfigDesignated, out_id \in ConfigDesignated :
          ( /\ LoadGraph(GraphConfig(cfg_nodes, cfg_conns, in_id, out_id))
            /\ \E k \in 1..Len(cfg_conns) :
                   \/ cfg_conns[k].from_node \notin ConfigIds(cfg_nodes)
                   \/ cfg_conns[k].to_node \notin ConfigIds(cfg_nodes) )
          => ~load_ok']_vars

\* C13: loadGraph(config) fails whenever input_node_id or output_node_id of
\* the configuration is set to an id that is not among the configuration's
\* nodes.
C13_AbsentDesignatedFailsLoad ==
    [][\A cfg_nodes \in ConfigNodes, cfg_conns \in ConfigConnections,
          in_id \in ConfigDesignated, out_id \in ConfigDesignated :
          ( /\ LoadGraph(GraphConfig(cfg_nodes, cfg_conns, in_id, out_id))
            /\ \/ in_id # NoId /\ in_id \notin ConfigIds(cfg_nodes)
               \/ out_id # NoId /\ out_id \notin ConfigIds(cfg_nodes) )
          => ~load_ok']_vars

\* C14: the validation pass of loadGraph fails the load when a node of type
\* "input" is the target of a connection, and does not fail it merely because
\* a node of type "output" is the source of a connection: a load of a graph
\* without a cycle and without a targeted input node succeeds.
C14_InputTargetFatalOutputSourceNot ==
    loads > 0 =>
        LET inputTargeted ==
                \E id \in DOMAIN nodes_ :
                    /\ nodes_[id].type = "input"
                    /\ \E k \in 1..Len(connections_) : connections_[k].to_node = id
        IN /\ inputTargeted => ~load_ok
           /\ (~inputTargeted /\ ~Cyclic(nodes_)) => load_ok

\* C14 witness: a load succeeded on a graph in which a node of type "output"
\* is the source of a connection to another node.
C14_Witness ==
    /\ load_ok
    /\ \E k \in 1..Len(connections_) :
           /\ connections_[k].from_node \in DOMAIN nodes_
           /\ connections_[k].to_node \in DOMAIN nodes_
           /\ nodes_[connections_[k].from_node].type = "output"

\* C15: execute() fails on an empty topological order only when the node
\* count is nonzero; on a graph with zero nodes execute() does not fail on
\* that ground and returns the empty image.
C15_EmptyGraphExecuteSucceeds ==
    [][(ExecuteBegin /\ getNodeCount(nodes_) = 0) =>
          /\ run' # "failed"
          /\ error' # "no_valid_execution_order"]_vars

\* C16: in a run of executeWithProgress(callback) over N nodes that
\* completes, the callback is invoked exactly N times; the k-th invocation
\* carries current_index k and total_count N, and it happens after the result
\* of node k-1 was cached and before node k executes.
C16_ProgressOncePerNode ==
    run = "completed" =>
        LET N == Len(execution_order)
        IN /\ N > 0
           /\ Len(progress) = N
           /\ \A k \in 1..Len(progress) :
                  /\ progress[k].node = execution_order[k]
                  /\ progress[k].current = k
                  /\ progress[k].total = N
                  /\ progress[k].cached = {execution_order[j] : j \in 1..(k - 1)}
                  /\ execution_order[k] \notin progress[k].cached

\* C16 witness: a completed run over two nodes joined by a connection.
C16_Witness ==
    /\ run = "completed"
    /\ Len(progress) = 2
    /\ \E k \in 1..Len(connections_) :
           /\ connections_[k].from_node = execution_order[1]
           /\ connections_[k].to_node = execution_order[2]

\* the exceptions that leave executeNode
NodeErrors == {"node_not_found", "source_not_executed", "node_execution"}

\* C17: execution is fail-fast: when the node at position k of the execution
\* order fails, the error reaches the caller of execute(), no result is
\* cached for that node, and no node at a later position is executed or
\* reported to the progress callback in that run.
C17_FailFast ==
    /\ []((run = "failed" /\ error \in NodeErrors) =>
            LET k == exec_i + 1
            IN /\ k \in 1..Len(execution_order)
               /\ Len(progress) = k
               /\ progress[k].node = execution_order[k]
               /\ \A j \in k..Len(execution_order) :
                      execution_order[j] \notin DOMAIN node_results_)
    /\ [][\A external_ok \in BOOLEAN :
            ( /\ ExecuteStep(external_ok)
              /\ executeNode(nodes_, connections_, node_results_,
                             execution_order[exec_i + 1], external_ok).thrown # "none" )
            => /\ run' = "failed"
               /\ error' \in NodeErrors
               /\ node_results_' = node_results_
               /\ stats_' = stats_]_vars

\* C17 witness: a run failed at a node that has an executed node before it
\* and an unexecuted node after it in the execution order.
C17_Witness ==
    /\ run = "failed"
    /\ error = "node_execution"
    /\ exec_i >= 1
    /\ exec_i + 1 < Len(execution_order)
    /\ DOMAIN node_results_ = {execution_order[j] : j \in 1..exec_i}

\* C18: the result cache is scoped to one run: execute() empties it before
\* the first node runs, at every point of a run it holds exactly the results
\* of the nodes executed so far in this run, and when a run completes its key
\* set is the set of node ids of the graph.
C18_CacheScopedToRun ==
    /\ [](run = "running" =>
             DOMAIN node_results_ = {execution_order[j] : j \in 1..exec_i})
    /\ [][ExecuteBegin => node_results_' = <<>>]_vars
    /\ [][\A external_ok \in BOOLEAN :
            (ExecuteStep(external_ok) /\ run' = "completed")
            => DOMAIN node_results_' = DOMAIN nodes_]_vars

\* C18 witness: a run over three nodes completed and the cache holds a
\* result for each of them.
C18_Witness ==
    /\ run = "completed"
    /\ getNodeCount(nodes_) = 3
    /\ DOMAIN node_results_ = DOMAIN nodes_
    /\ stats_.executed_nodes = 3

\* the output-typed nodes of the graph
OutputTyped(ns) == {id \in DOMAIN ns : ns[id].type = "output"}

\* C19: when no output-typed node exists and at least one node has been
\* executed, getResult() returns the result of the node that was cached
\* last, i.e. of the last node of the execution order that was executed.
C19_NoSinkReturnsLastCached ==
    (DOMAIN node_results_ # {} /\ OutputTyped(nodes_) = {}) =>
        getResult(nodes_, node_results_) = node_results_[execution_order[exec_i]]

C22_SecondRunSameResults ==
    /\ [][(run # "running" /\ run' = "running" /\ completed_run # NoRun) =>
            /\ execution_order' = completed_run.order
            /\ node_results_' = <<>>
            /\ stats_'.executed_nodes = 0]_vars
    /\ [][(run = "running" /\ run' = "completed" /\ completed_run # NoRun) =>
            /\ execution_order' = completed_run.order
            /\ node_results_' = completed_run.results
            /\ DOMAIN node_results_' = Range(execution_order')
            /\ stats_'.executed_nodes = Len(execution_order')]_vars

\* C22 witness: a second run of a graph of three nodes, on which a run has
\* completed before, has executed a node and has not finished.
C22_Witness ==
    /\ run = "running"
    /\ completed_run # NoRun
    /\ Len(completed_run.order) = 3
    /\ exec_i = 1
    /\ connections_ # <<>>

C24_AddNodeFrame ==
    [][\A id \in NodeIds, t \in HarnessTypes :
          AddNode(id, t) =>
             /\ hasNode(nodes_', id)
             /\ nodes_'[id] = GraphNode(t)
             /\ getNodeCount(nodes_') =
                    getNodeCount(nodes_) + (IF hasNode(nodes_, id) THEN 0 ELSE 1)
             /\ DOMAIN nodes_' = (DOMAIN nodes_) \cup {id}
             /\ \A k \in (DOMAIN nodes_) \ {id} : nodes_'[k] = nodes_[k]
             /\ connections_' = connections_]_vars

\* C24 witness: a node was replaced by addNode while a neighbour and a
\* connection still name it: its own lists are empty, the neighbour's output
\* list and the connection list are as before.
C24_Witness ==
    \E a \in DOMAIN nodes_, b \in DOMAIN nodes_ :
        /\ a # b
        /\ hasOutput(nodes_[b].output_node_ids_, a)
        /\ nodes_[a] = GraphNode("blur")
        /\ \E k \in 1..Len(connections_) :
               connections_[k].from_node = b /\ connections_[k].to_node = a

\* C25: re-loading discards prior results: right after a loadGraph that
\* succeeded, also one that follows a completed or a failed run, the result
\* cache is empty, executed_nodes is 0 and getResult() returns the empty
\* image.
C25_LoadDiscardsResults ==
    [][(loads' = loads + 1 /\ load_ok') =>
          /\ node_results_' = <<>>
          /\ stats_'.executed_nodes = 0
          /\ stats_'.total_nodes = getNodeCount(nodes_')
          /\ getResult(nodes_', node_results_') = <<>>]_vars

\* C25 witness: a load has succeeded after a run completed on another graph:
\* the order of that run does not cover the nodes now loaded, and the cache
\* is empty.
C25_Witness ==
    /\ load_ok
    /\ loads = 2
    /\ run = "completed"
    /\ Range(execution_order) # DOMAIN nodes_
    /\ node_results_ = <<>>
    /\ stats_.executed_nodes = 0

C27_ExactlyOneInput ==
    [][\A external_ok \in BOOLEAN :
          ExecuteStep(external_ok) =>
             LET id == execution_order[exec_i + 1]
                 incoming == getIncomingConnections(connections_, id)
             IN (hasNode(nodes_, id) /\ nodes_[id].type # "input") =>
                   /\ Len(incoming) # 1 =>
                          (run' = "failed" /\ error' = "node_execution")
                   /\ (run' # "failed" /\ nodes_[id].type = "output") =>
                          node_results_'[id] = node_results_[incoming[1].from_node]]_vars

\* C28: the nodes of one execution level are mutually independent: for a
\* graph that was loaded successfully, executing level after level, the
\* nodes of a level in any order, finds the source of every incoming
\* connection of a node in the cache, i.e. in an earlier level, and writes
\* each cache key once, i.e. every node is in exactly one level, once.
C28_LevelsIndependent ==
    load_ok =>
        LET levels == topologicalSort(nodes_)
            order == Flatten(levels)
        IN /\ \A i \in 1..Len(order), j \in 1..Len(order) : order[i] = order[j] => i = j
           /\ \A k \in 1..Len(levels) : \A id \in Range(levels[k]) :
                  \A c \in 1..Len(connections_) :
                      connections_[c].to_node = id =>
                          \E h \in 1..(k - 1) : InLevel(levels, h, connections_[c].from_node)

\* C29: hasCycles() and topologicalSort() agree in every graph state
\* reachable through the Graph mutation operations: for a graph with at
\* least one node, topologicalSort() returns the empty level set if and only
\* if hasCycles() returns true.
C29_CycleSignalsAgree ==
    getNodeCount(nodes_) > 0 =>
        (topologicalSort(nodes_) = <<>> <=> hasCycles(nodes_))

\* C30: the connection list and the node lists describe the same edges in
\* every reachable state: a connection from->to is in the connection list if
\* and only if both nodes exist, to is in from's output list and from is in
\* to's input list; so removeNode and disconnectNodes leave no connection
\* that names the removed node or the removed edge.
C30_ConnectionsMatchLists ==
    \A from \in NodeIds, to \in NodeIds :
        (\E k \in 1..Len(connections_) :
            connections_[k].from_node = from /\ connections_[k].to_node = to)
        <=> ( /\ hasNode(nodes_, from) /\ hasNode(nodes_, to)
              /\ hasOutput(nodes_[from].output_node_ids_, to)
              /\ hasInput(nodes_[to].input_node_ids_, from) )

\* C31: each node is a single producer: in one run of execute() no node is
\* executed twice and no cache entry is written twice (the order holds no id
\* twice, the cache holds exactly the nodes executed so far, the node about to
\* be executed is not among them), and a run that completed executed each
\* node of the graph exactly once.
C31_SingleProducer ==
    /\ \A i \in 1..Len(execution_order), j \in 1..Len(execution_order) :
           execution_order[i] = execution_order[j] => i = j
    /\ run = "running" =>
           /\ DOMAIN node_results_ = Range(SubSeq(execution_order, 1, exec_i))
           /\ stats_.executed_nodes = exec_i
           /\ execution_order[exec_i + 1] \notin DOMAIN node_results_
    /\ completed_run # NoRun =>
           /\ Range(completed_run.order) = DOMAIN nodes_
           /\ Len(completed_run.order) = getNodeCount(nodes_)
           /\ DOMAIN completed_run.results = DOMAIN nodes_

\* C31 witness: a run over three nodes, one of them with two predecessors,
\* has completed, and every node has its cache entry.
C31_Witness ==
    /\ run = "completed"
    /\ completed_run # NoRun
    /\ getNodeCount(nodes_) = 3
    /\ \E id \in DOMAIN nodes_ : Len(nodes_[id].input_node_ids_) = 2
    /\ DOMAIN node_results_ = DOMAIN nodes_
    /\ stats_.executed_nodes = 3

\* ------------------------------------------- configured nodes, pipelines
\* parameter mappings a configuration may give a node
ConfiguredParameters == {NoParameters, [kernel_size |-> 5]}

\* regions of interest a configuration may give: the whole image, a rectangle
ConfiguredROIs == {ROI(0, 0, 0, 0, TRUE), ROI(1, 1, 2, 2, FALSE)}

\* configurations whose nodes carry parameters, an inputs list and a roi:
\* every id at most once, nodes listed in id order
ConfiguredNodes ==
    {ns \in UNION {[1..n -> [id : NodeIds, type : {"input", "blur"},
                             parameters : ConfiguredParameters,
                             inputs : {<<>>, <<1>>}, roi : ConfiguredROIs]] :
                      n \in 0..MaxCfgNodes} :
        \A k \in 1..(Len(ns) - 1) : ns[k].id < ns[k + 1].id}

\* OperationConfig
OperationConfig(t, parameters, roi) == [type |-> t, parameters |-> parameters, roi |-> roi]

\* PipelineConfig
PipelineConfig(global_roi, operations) ==
    [global_roi |-> global_roi, operations |-> operations]

\* linear pipelines of at most one operation
Pipelines ==
    {PipelineConfig(g, ops) :
        g \in ConfiguredROIs,
        ops \in UNION {[1..n -> [type : HarnessTypes, parameters : ConfiguredParameters,
                                 roi : ConfiguredROIs]] : n \in 0..1}}

\* the ids convertPipelineToGraph gives its nodes, in the order of the id
\* strings: "blur_1" < "input" < "output"
OperationNodeId(i) == i
PipelineInputId == 2
PipelineOutputId == 3

\* PipelineReader::convertPipelineToGraph
convertPipelineToGraph(pipeline) ==
    LET ops == pipeline.operations
        prev_node_id(k) == IF k = 1 THEN PipelineInputId ELSE OperationNodeId(k - 1)
        input_node == NodeConfig(PipelineInputId, "input", NoParameters, <<>>, DefaultROI)
        operation_nodes ==
            [k \in 1..Len(ops) |->
                NodeConfig(OperationNodeId(k), ops[k].type, ops[k].parameters,
                           <<prev_node_id(k)>>,
                           IF ops[k].roi.full_image THEN pipeline.global_roi
                           ELSE ops[k].roi)]
        output_node == NodeConfig(PipelineOutputId, "output", NoParameters,
                                  <<prev_node_id(Len(ops) + 1)>>, DefaultROI)
    IN GraphConfig(<<input_node>> \o operation_nodes \o <<output_node>>, <<>>,
                   PipelineInputId, PipelineOutputId)

\* the roi and parameters arguments of node->execute in executeNode :
\* node->getROI(), node->getParameters()
executeArguments(ns, id) == [roi |-> ns[id].roi_, parameters |-> ns[id].parameters_]

\* a GraphExecutor that is handed configurations whose nodes carry
\* parameters, inputs lists and rois, and converted linear pipelines
NextConfigured ==
    \/ \E cfg_nodes \in ConfiguredNodes : LoadGraph(GraphConfig(cfg_nodes, <<>>, NoId, NoId))
    \/ \E pipeline \in Pipelines : LoadGraph(convertPipelineToGraph(pipeline))
    \/ ExecuteBegin
    \/ \E external_ok \in BOOLEAN : ExecuteStep(external_ok)

SpecConfigured == Init /\ [][NextConfigured]_vars

\* C32: every node is executed with the parameter mapping and the roi given
\* for it in the loaded configuration: after loadGraph(config), the roi and
\* parameters arguments that executeNode hands to the execute of a node of
\* config are NodeConfig.roi and NodeConfig.parameters of that node.
C32_ExecutedAsConfigured ==
    [][\A cfg_nodes \in ConfiguredNodes :
          LoadGraph(GraphConfig(cfg_nodes, <<>>, NoId, NoId)) =>
             \A k \in 1..Len(cfg_nodes) :
                 executeArguments(nodes_', cfg_nodes[k].id) =
                     [roi |-> cfg_nodes[k].roi, parameters |-> cfg_nodes[k].parameters]]_vars

\* position of id in an execution order, 0 if it is not in it
PositionIn(order, id) ==
    IF \E k \in 1..Len(order) : order[k] = id
    THEN CHOOSE k \in 1..Len(order) : order[k] = id
    ELSE 0

\* C33: a dependency declared only in a node's inputs list, as in the
\* configurations convertPipelineToGraph produces, is honoured: after
\* loadGraph of such a configuration, every node of it comes after each
\* predecessor listed in its inputs in the execution order, and its incoming
\* connections, from which getNodeInputs collects its input images, have a
\* connection from that predecessor.
C33_InputsListHonoured ==
    [][\A pipeline \in Pipelines :
          LoadGraph(convertPipelineToGraph(pipeline)) =>
             LET cfg_nodes == convertPipelineToGraph(pipeline).nodes
                 order == getTopologicalOrder(nodes_')
             IN \A k \in 1..Len(cfg_nodes) :
                    \A j \in 1..Len(cfg_nodes[k].inputs) :
                        /\ PositionIn(order, cfg_nodes[k].inputs[j]) > 0
                        /\ PositionIn(order, cfg_nodes[k].inputs[j]) <
                               PositionIn(order, cfg_nodes[k].id)
                        /\ \E c \in 1..Len(getIncomingConnections(connections_',
                                                                  cfg_nodes[k].id)) :
                               getIncomingConnections(connections_', cfg_nodes[k].id)[c]
                                   .from_node = cfg_nodes[k].inputs[j]]_vars

\* C34: after a loadGraph(config) that succeeded, the graph holds exactly the
\* nodes and the connections of config, also when another configuration had
\* been loaded before, and total_nodes is the number of nodes of config.
C34_LoadReplacesGraph ==
    [][\A cfg_nodes \in ConfigNodes, cfg_conns \in ConfigConnections :
          (LoadGraph(GraphConfig(cfg_nodes, cfg_conns, NoId, NoId)) /\ load_ok') =>
             /\ DOMAIN nodes_' = ConfigIds(cfg_nodes)
             /\ connections_' = cfg_conns
             /\ stats_'.total_nodes = Len(cfg_nodes)]_vars

\* C35: when loadGraph(config) fails, the graph and the statistics are left
\* as they were before the call: no node or connection of the rejected
\* configuration remains, so that a following execute() runs no node of it.
C35_FailedLoadLeavesEngine ==
    [][(loads' = loads + 1 /\ ~load_ok') =>
          /\ nodes_' = nodes_
          /\ connections_' = connections_
          /\ execution_levels_' = execution_levels_
          /\ stats_' = stats_]_vars

\* C36: in every reachable engine state, during a run and after an aborted
\* run included, executed_nodes is the number of entries of the result cache,
\* and after an aborted run the cache holds exactly the results of the nodes
\* that precede the failing node in the execution order.
C36_ExecutedCountsCache ==
    /\ [](stats_.executed_nodes = Cardinality(DOMAIN node_results_))
    /\ [](run = "running" => stats_.executed_nodes = exec_i)
    /\ [][(run = "running" /\ run' = "failed") =>
            /\ exec_i' < Len(execution_order')
            /\ node_results_' = node_results_
            /\ DOMAIN node_results_' = Range(SubSeq(execution_order', 1, exec_i'))
            /\ stats_'.executed_nodes = exec_i']_vars

\* C36 witness: a run over three nodes aborted at the third one, with the
\* results of the first two in the cache.
C36_Witness ==
    /\ run = "failed"
    /\ Len(execution_order) = 3
    /\ exec_i = 2
    /\ Cardinality(DOMAIN node_results_) = 2
    /\ stats_.executed_nodes = 2

\* C37: in every reachable engine state, after any sequence of successful or
\* failed loadGraph, execute and clearResults calls, executed_nodes never
\* exceeds total_nodes, and after a run that completes executed_nodes equals
\* total_nodes.
C37_ExecutedWithinTotal ==
    /\ [](stats_.executed_nodes <= stats_.total_nodes)
    /\ [][(run = "running" /\ run' = "completed") =>
            stats_'.executed_nodes = stats_'.total_nodes]_vars

\* no edge from -> to : in neither node list and not in the connection list
NoEdge(ns, conns, from, to) ==
    /\ ~hasOutput(ns[from].output_node_ids_, to)
    /\ ~hasInput(ns[to].input_node_ids_, from)
    /\ \A k \in 1..Len(conns) : ~(conns[k].from_node = from /\ conns[k].to_node = to)

\* C38: connecting and then disconnecting is a round trip: in every reachable
\* graph state, for two existing nodes A and B with no edge A->B,
\* connectNodes(A, B) followed by disconnectNodes(A, B), and
\* addConnection(A, p, B, q) followed by disconnectNodes(A, B), give back the
\* node lists, the connection list and the execution levels of that state.
C38_ConnectDisconnectRoundTrip ==
    \A a \in DOMAIN nodes_, b \in DOMAIN nodes_ :
        (a # b /\ NoEdge(nodes_, connections_, a, b)) =>
            LET restored == unlinkNodes(linkNodes(nodes_, a, b), a, b)
            IN \* connectNodes, then disconnectNodes
               /\ restored = nodes_
               /\ updateExecutionLevels(restored) = execution_levels_
               \* addConnection, then disconnectNodes, which leaves connections_
               /\ \A p \in Ports, q \in Ports :
                      Append(connections_, Connection(a, p, b, q)) = connections_

\* C39: every call of execute() eventually finishes, completed with every
\* node executed or failed with an error: the loop index stays below the
\* length of the order while the run goes on, and a run that is going on
\* leads to one that completed with a result for every node or failed with an
\* error; hasCycles() and topologicalSort() return on every graph the engine
\* reaches, graphs with cycles and self-loops included.
C39_ExecuteFinishes ==
    /\ [](run = "running" => exec_i < Len(execution_order))
    /\ (run = "running") ~>
           \/ run = "completed" /\ DOMAIN node_results_ = DOMAIN nodes_
           \/ run = "failed" /\ error # "none"
    /\ [](/\ hasCycles(nodes_) \in BOOLEAN
          /\ Len(Flatten(topologicalSort(nodes_))) \in {0, getNodeCount(nodes_)})

\* C39 witness: execute() was called on a graph with a self-loop and another
\* node, for which hasCycles() returned true and topologicalSort() the empty
\* level set, and it failed at once.
C39_Witness ==
    /\ run = "failed"
    /\ error = "no_valid_execution_order"
    /\ getNodeCount(nodes_) = 2
    /\ \E a \in DOMAIN nodes_ : hasOutput(nodes_[a].output_node_ids_, a)
    /\ hasCycles(nodes_)
    /\ topologicalSort(nodes_) = <<>>

====
